---- MODULE Spec2Model ----
(***************************************************************************)
(* Connection pool of apnsclient.backends: BaseBackend keeps, per          *)
(* (address, certificate) key, a list of idle BaseConnection objects       *)
(* guarded by one lock.  Threads call get_cached_connection, release and   *)
(* outdate concurrently; every statement that touches shared state is one  *)
(* step of the calling thread.                                             *)
(***************************************************************************)
EXTENDS Integers, Sequences, FiniteSets, TLC

\* ---------------------------------------------------------------- bounds
NumThreads == 2
MaxConns == 2
NumAddresses == 2
NumCertificates == 1
MaxPoolSize == 1
MaxTime == 1
MaxDelta == 0
MaxMisuse == 1
MaxHeld == 1

\* ------------------------------------------------------------- constants
\* Python's None for pool_size (unlimited pool).
None == -1
\* "no connection" / "no thread" marker for local variables and the lock.
NoCon == 0
NoThread == 0

Threads == 1..NumThreads
Addresses == 1..NumAddresses
Certificates == 1..NumCertificates
Keys == Addresses \X Certificates
NoKey == <<0, 0>>
PoolSizes == {None} \cup (0..MaxPoolSize)
Deltas == 0..MaxDelta

VARIABLES
    pool_size,     \* BaseBackend.pool_size
    connections,   \* BaseBackend._connections: key -> list of connections
    lock,          \* BaseBackend._lock: the thread that holds it, or NoThread
    conns,         \* the connection objects created so far, by identity
    now,           \* datetime.datetime.now()
    pc,            \* per thread: the statement it is about to execute
    held,          \* per thread: connections checked out by the caller
    t_key,         \* per thread: local `key`
    t_con,         \* per thread: local `connection` of release
    t_delta,       \* per thread: local `delta` of outdate
    out_items,     \* per thread: keys of list(iteritems(self._connections))
    out_todo,      \* per thread: the items not yet visited
    out_idx,       \* per thread: position of `for con in pool`
    new_pool,      \* per thread: local `new_pool` of outdate
    pending,       \* history: per key, the connection last stored by release
                   \* and not yet followed by an acquire on the key or a sweep
    misuse         \* history: number of releases of a connection not held

vars == <<pool_size, connections, lock, conns, now, pc, held, t_key, t_con,
          t_delta, out_items, out_todo, out_idx, new_pool, pending, misuse>>

locals == <<t_key, t_con, t_delta, out_items, out_todo, out_idx, new_pool>>
outvars == <<out_items, out_todo, out_idx, new_pool>>

\* ------------------------------------------------------------ connection
Created == 1..Len(conns)

\* BaseConnection.__init__: address, certificate, touch().
NewConnection(address, certificate) ==
    [address |-> address, certificate |-> certificate,
     last_use |-> now, closed |-> FALSE]

\* Variant of touch: the timestamp is left alone.
touch_none(c) == conns

\* BaseConnection.touch: last_use = now().
touch(c) == [conns EXCEPT ![c].last_use = now]

\* Variant of is_outdated: the comparison is not strict.
is_outdated_ge(c, delta) == (now - conns[c].last_use) >= delta

\* BaseConnection.is_outdated: (now() - last_use) > delta.
is_outdated(c, delta) == (now - conns[c].last_use) > delta

\* BaseConnection.closed.
closed(c) == conns[c].closed

\* BaseConnection.close: idempotent, sets the closed state.
close(c) == [conns EXCEPT ![c].closed = TRUE]

\* ------------------------------------------------------------------ pool
\* self._connections.get(key): the list, or nothing (falsy, like []).
PoolGet(k) == IF k \in DOMAIN connections THEN connections[k] ELSE <<>>

\* self._connections.setdefault(key, []): the mapping afterwards.
SetDefault(k) ==
    IF k \in DOMAIN connections THEN connections ELSE connections @@ (k :> <<>>)

\* del self._connections[key]
DelKey(k) == [x \in DOMAIN connections \ {k} |-> connections[x]]

\* Variant of Popped: the list loses its last element, not its first.
PoppedLast(pool) == SubSeq(pool, 1, Len(pool) - 1)

\* Variant of Popped: the head is read but stays in the list.
PoppedKeep(pool) == pool

\* pool.pop(0): what is left of the list.
Popped(pool) == Tail(pool)

\* Variant of StorePool: an empty new pool is stored like any other.
StorePoolKeep(k, np) == [connections EXCEPT ![k] = np]

\* lines 150-153: self._connections[key] = new_pool, or del when empty.
StorePool(k, np) ==
    IF np # <<>> THEN [connections EXCEPT ![k] = np] ELSE DelKey(k)

Range(s) == {s[i] : i \in 1..Len(s)}
Idle == UNION {Range(connections[k]) : k \in DOMAIN connections}

Init ==
    /\ pool_size \in PoolSizes
    /\ connections = <<>>
    /\ lock = NoThread
    /\ conns = <<>>
    /\ now = 0
    /\ pc = [t \in Threads |-> "idle"]
    /\ held = [t \in Threads |-> {}]
    /\ t_key = [t \in Threads |-> NoKey]
    /\ t_con = [t \in Threads |-> NoCon]
    /\ t_delta = [t \in Threads |-> 0]
    /\ out_items = [t \in Threads |-> {}]
    /\ out_todo = [t \in Threads |-> {}]
    /\ out_idx = [t \in Threads |-> 0]
    /\ new_pool = [t \in Threads |-> <<>>]
    /\ pending = [k \in Keys |-> NoCon]
    /\ misuse = 0

\* ------------------------------------------------- get_cached_connection
\* line 80: key = (address, certificate)
CallGet(t, address, certificate) ==
    /\ pc[t] = "idle"
    /\ Cardinality(held[t]) < MaxHeld
    /\ pc' = [pc EXCEPT ![t] = "get_lock"]
    /\ t_key' = [t_key EXCEPT ![t] = <<address, certificate>>]
    /\ UNCHANGED <<pool_size, connections, lock, conns, now, held, t_con,
                   t_delta, outvars, pending, misuse>>

\* line 82: self._lock.acquire()
GetLock(t) ==
    /\ pc[t] = "get_lock"
    /\ lock = NoThread
    /\ lock' = t
    /\ pc' = [pc EXCEPT ![t] = "get_scan"]
    /\ UNCHANGED <<pool_size, connections, conns, now, held, locals,
                   pending, misuse>>

\* Variant of ScanAccepts: the negation is lost.
ScanAcceptsClosed(con) == closed(con)

\* Variant of ScanAccepts: the closed state is not looked at.
ScanAcceptsAll(con) == TRUE

\* line 86: if not con.closed()
ScanAccepts(con) == ~closed(con)

\* lines 84-90, one iteration of `while pool`: pop the head; a live
\* connection is touched and returned (the finally clause frees the lock),
\* a closed one is dropped and the loop goes on.
GetPop(t) ==
    /\ pc[t] = "get_scan"
    /\ PoolGet(t_key[t]) # <<>>
    /\ LET k == t_key[t]
           con == Head(connections[k])
       IN /\ connections' = [connections EXCEPT ![k] = Popped(connections[k])]
          /\ IF ScanAccepts(con)
             THEN /\ conns' = touch(con)
                  /\ held' = [held EXCEPT ![t] = held[t] \cup {con}]
                  /\ lock' = NoThread
                  /\ pc' = [pc EXCEPT ![t] = "idle"]
                  /\ t_key' = [t_key EXCEPT ![t] = NoKey]
                  /\ pending' = [pending EXCEPT ![k] = NoCon]
             ELSE UNCHANGED <<conns, held, lock, pc, t_key, pending>>
    /\ UNCHANGED <<pool_size, now, t_con, t_delta, outvars, misuse>>

\* Variant of GetMiss: the lock is still held when the scan is left.
GetMissKeepLock(t) ==
    /\ pc[t] = "get_scan"
    /\ PoolGet(t_key[t]) = <<>>
    /\ pc' = [pc EXCEPT ![t] = "get_new"]
    /\ pending' = [pending EXCEPT ![t_key[t]] = NoCon]
    /\ UNCHANGED <<pool_size, connections, lock, conns, now, held, locals,
                   misuse>>

\* lines 84, 89-90: the pool is missing or empty, leave the critical section.
GetMiss(t) ==
    /\ pc[t] = "get_scan"
    /\ PoolGet(t_key[t]) = <<>>
    /\ lock' = NoThread
    /\ pc' = [pc EXCEPT ![t] = "get_new"]
    /\ pending' = [pending EXCEPT ![t_key[t]] = NoCon]
    /\ UNCHANGED <<pool_size, connections, conns, now, held, locals,
                   misuse>>

\* line 92 / 117-125: get_new_connection opens a connection for the key.
GetNew(t) ==
    /\ pc[t] = "get_new"
    /\ Len(conns) < MaxConns
    /\ conns' = Append(conns, NewConnection(t_key[t][1], t_key[t][2]))
    /\ held' = [held EXCEPT ![t] = held[t] \cup {Len(conns) + 1}]
    /\ pc' = [pc EXCEPT ![t] = "idle"]
    /\ t_key' = [t_key EXCEPT ![t] = NoKey]
    /\ UNCHANGED <<pool_size, connections, lock, now, t_con, t_delta,
                   outvars, pending, misuse>>

\* Variant of GetNewFail: the failure also throws the pool away.
GetNewFailReset(t) ==
    /\ pc[t] = "get_new"
    /\ pc' = [pc EXCEPT ![t] = "idle"]
    /\ t_key' = [t_key EXCEPT ![t] = NoKey]
    /\ connections' = <<>>
    /\ UNCHANGED <<pool_size, lock, conns, now, held, t_con,
                   t_delta, outvars, pending, misuse>>

\* line 92: get_new_connection raises (connect failure), the caller gets
\* the exception and no connection.
GetNewFail(t) ==
    /\ pc[t] = "get_new"
    /\ pc' = [pc EXCEPT ![t] = "idle"]
    /\ t_key' = [t_key EXCEPT ![t] = NoKey]
    /\ UNCHANGED <<pool_size, connections, lock, conns, now, held, t_con,
                   t_delta, outvars, pending, misuse>>

\* --------------------------------------------------------------- release
\* Variant of PoolEnabled: pool_size 0 counts as a pool.
PoolEnabledGe == pool_size = None \/ pool_size >= 0

\* line 102: self.pool_size is None or self.pool_size > 0
PoolEnabled == pool_size = None \/ pool_size > 0

\* Variant of HasRoom: the comparison is turned around.
HasRoomGt(pool) == pool_size = None \/ Len(pool) > pool_size

\* Variant of HasRoom: off by one.
HasRoomLe(pool) == pool_size = None \/ Len(pool) <= pool_size

\* Variant of HasRoom: the length of the pool is not looked at.
HasRoomAlways(pool) == TRUE

\* line 107: self.pool_size is None or len(pool) < self.pool_size
HasRoom(pool) == pool_size = None \/ Len(pool) < pool_size

\* Variant of KeyOf: the two parts of the key are swapped.
KeyOfSwapped(c) == <<conns[c].certificate, conns[c].address>>

\* line 105: key = (connection.address, connection.certificate)
KeyOf(c) == <<conns[c].address, conns[c].certificate>>

\* lines 101-102 and the fall-through to 115: a closed connection is
\* dropped; a live one goes for the lock, or straight to close() when the
\* pool is disabled.
ReleaseEnter(t, c) ==
    /\ pc[t] = "idle"
    /\ held' = [held EXCEPT ![t] = held[t] \ {c}]
    /\ IF closed(c)
       THEN UNCHANGED <<pc, t_con>>
       ELSE /\ t_con' = [t_con EXCEPT ![t] = c]
            /\ pc' = [pc EXCEPT ![t] =
                        IF PoolEnabled THEN "rel_lock" ELSE "rel_close"]
    /\ UNCHANGED <<pool_size, connections, lock, conns, now, t_key, t_delta,
                   outvars, pending>>

\* release(connection) by the caller that holds the connection.
CallRelease(t, c) ==
    /\ c \in held[t]
    /\ ReleaseEnter(t, c)
    /\ UNCHANGED misuse

\* release(connection) by a caller that kept a reference to a connection it
\* has released before and that still sits in the pool (the method does not
\* check who holds the connection).
ReleaseAgain(t, c) ==
    /\ c \in Idle
    /\ c \notin held[t]
    /\ misuse < MaxMisuse
    /\ misuse' = misuse + 1
    /\ ReleaseEnter(t, c)

\* line 104: self._lock.acquire()
RelLock(t) ==
    /\ pc[t] = "rel_lock"
    /\ lock = NoThread
    /\ lock' = t
    /\ pc' = [pc EXCEPT ![t] = "rel_check"]
    /\ UNCHANGED <<pool_size, connections, conns, now, held, locals,
                   pending, misuse>>

\* lines 105-112, room in the pool: touch, append, return; the finally
\* clause frees the lock.
RelStore(t) ==
    /\ pc[t] = "rel_check"
    /\ LET c == t_con[t]
           k == KeyOf(c)
           pools == SetDefault(k)
       IN /\ HasRoom(pools[k])
          /\ conns' = touch(c)
          /\ connections' = [pools EXCEPT ![k] = Append(pools[k], c)]
          /\ pending' = [pending EXCEPT ![k] = c]
    /\ lock' = NoThread
    /\ pc' = [pc EXCEPT ![t] = "idle"]
    /\ t_con' = [t_con EXCEPT ![t] = NoCon]
    /\ UNCHANGED <<pool_size, now, held, t_key, t_delta, outvars,
                   misuse>>

\* lines 105-107, 111-112, no room: the lock is freed and close() is next.
RelFull(t) ==
    /\ pc[t] = "rel_check"
    /\ LET c == t_con[t]
           k == KeyOf(c)
           pools == SetDefault(k)
       IN /\ ~HasRoom(pools[k])
          /\ connections' = pools
    /\ lock' = NoThread
    /\ pc' = [pc EXCEPT ![t] = "rel_close"]
    /\ UNCHANGED <<pool_size, conns, now, held, locals, pending,
                   misuse>>

\* line 115: connection.close()
RelClose(t) ==
    /\ pc[t] = "rel_close"
    /\ conns' = close(t_con[t])
    /\ pc' = [pc EXCEPT ![t] = "idle"]
    /\ t_con' = [t_con EXCEPT ![t] = NoCon]
    /\ UNCHANGED <<pool_size, connections, lock, now, held, t_key, t_delta,
                   outvars, pending, misuse>>

\* --------------------------------------------------------------- outdate
\* line 127 (and 159, __del__, with delta = 0)
CallOutdate(t, delta) ==
    /\ pc[t] = "idle"
    /\ pc' = [pc EXCEPT ![t] = "out_lock"]
    /\ t_delta' = [t_delta EXCEPT ![t] = delta]
    /\ UNCHANGED <<pool_size, connections, lock, conns, now, held, t_key,
                   t_con, outvars, pending, misuse>>

\* lines 140-141: acquire the lock, list(iteritems(self._connections)).
OutLock(t) ==
    /\ pc[t] = "out_lock"
    /\ lock = NoThread
    /\ lock' = t
    /\ out_items' = [out_items EXCEPT ![t] = DOMAIN connections]
    /\ out_todo' = [out_todo EXCEPT ![t] = DOMAIN connections]
    /\ pc' = [pc EXCEPT ![t] = "out_key"]
    /\ pending' = [k \in Keys |-> NoCon]
    /\ UNCHANGED <<pool_size, connections, conns, now, held, t_key, t_con,
                   t_delta, out_idx, new_pool, misuse>>

\* lines 141-142: next (key, pool) item, new_pool = [].
OutKey(t) ==
    /\ pc[t] = "out_key"
    /\ \E k \in out_todo[t] :
          /\ t_key' = [t_key EXCEPT ![t] = k]
          /\ out_todo' = [out_todo EXCEPT ![t] = out_todo[t] \ {k}]
    /\ new_pool' = [new_pool EXCEPT ![t] = <<>>]
    /\ out_idx' = [out_idx EXCEPT ![t] = 1]
    /\ pc' = [pc EXCEPT ![t] = "out_con"]
    /\ UNCHANGED <<pool_size, connections, lock, conns, now, held, t_con,
                   t_delta, out_items, pending, misuse>>

\* lines 143-147: one connection of the pool; kept, skipped (closed), or
\* about to be closed (outdated).
OutCon(t) ==
    /\ pc[t] = "out_con"
    /\ out_idx[t] <= Len(connections[t_key[t]])
    /\ LET con == connections[t_key[t]][out_idx[t]]
       IN IF ~closed(con)
          THEN IF ~is_outdated(con, t_delta[t])
               THEN /\ new_pool' = [new_pool EXCEPT ![t] = Append(new_pool[t], con)]
                    /\ out_idx' = [out_idx EXCEPT ![t] = out_idx[t] + 1]
                    /\ UNCHANGED pc
               ELSE /\ pc' = [pc EXCEPT ![t] = "out_close"]
                    /\ UNCHANGED <<new_pool, out_idx>>
          ELSE /\ out_idx' = [out_idx EXCEPT ![t] = out_idx[t] + 1]
               /\ UNCHANGED <<pc, new_pool>>
    /\ UNCHANGED <<pool_size, connections, lock, conns, now, held, t_key,
                   t_con, t_delta, out_items, out_todo, pending, misuse>>

\* line 148: con.close()
OutClose(t) ==
    /\ pc[t] = "out_close"
    /\ conns' = close(connections[t_key[t]][out_idx[t]])
    /\ out_idx' = [out_idx EXCEPT ![t] = out_idx[t] + 1]
    /\ pc' = [pc EXCEPT ![t] = "out_con"]
    /\ UNCHANGED <<pool_size, connections, lock, now, held, t_key, t_con,
                   t_delta, out_items, out_todo, new_pool, pending, misuse>>

\* lines 150-153: store the new pool, or delete the key when it is empty.
OutEndKey(t) ==
    /\ pc[t] = "out_con"
    /\ out_idx[t] > Len(connections[t_key[t]])
    /\ connections' = StorePool(t_key[t], new_pool[t])
    /\ t_key' = [t_key EXCEPT ![t] = NoKey]
    /\ new_pool' = [new_pool EXCEPT ![t] = <<>>]
    /\ out_idx' = [out_idx EXCEPT ![t] = 0]
    /\ pc' = [pc EXCEPT ![t] = "out_key"]
    /\ UNCHANGED <<pool_size, lock, conns, now, held, t_con, t_delta,
                   out_items, out_todo, pending, misuse>>

\* line 141: the items are exhausted.
OutDone(t) ==
    /\ pc[t] = "out_key"
    /\ out_todo[t] = {}
    /\ pc' = [pc EXCEPT ![t] = "out_unlock"]
    /\ UNCHANGED <<pool_size, connections, lock, conns, now, held, locals,
                   pending, misuse>>

\* lines 154-155: finally: self._lock.release(), return.
OutUnlock(t) ==
    /\ pc[t] = "out_unlock"
    /\ lock' = NoThread
    /\ pc' = [pc EXCEPT ![t] = "idle"]
    /\ t_delta' = [t_delta EXCEPT ![t] = 0]
    /\ t_key' = [t_key EXCEPT ![t] = NoKey]
    /\ out_items' = [out_items EXCEPT ![t] = {}]
    /\ out_todo' = [out_todo EXCEPT ![t] = {}]
    /\ out_idx' = [out_idx EXCEPT ![t] = 0]
    /\ new_pool' = [new_pool EXCEPT ![t] = <<>>]
    /\ UNCHANGED <<pool_size, connections, conns, now, held, t_con,
                   pending, misuse>>

\* ------------------------------------------------------------ exceptions
\* Variant of GetRaise: the exception leaves the method past the lock.
GetRaiseKeepLock(t) ==
    /\ pc[t] = "get_scan"
    /\ PoolGet(t_key[t]) # <<>>
    /\ LET k == t_key[t]
       IN /\ connections' = [connections EXCEPT ![k] = Popped(connections[k])]
          /\ pending' = [pending EXCEPT ![k] = NoCon]
    /\ pc' = [pc EXCEPT ![t] = "idle"]
    /\ t_key' = [t_key EXCEPT ![t] = NoKey]
    /\ UNCHANGED <<pool_size, lock, conns, now, held, t_con, t_delta,
                   outvars, misuse>>

\* lines 85-90: con.closed() or con.touch() raises after the pop; the
\* finally clause frees the lock and the exception reaches the caller.  The
\* popped connection is out of the pool, handed to nobody and left as it
\* was: nothing in the method closes it.
GetRaise(t) ==
    /\ pc[t] = "get_scan"
    /\ PoolGet(t_key[t]) # <<>>
    /\ LET k == t_key[t]
       IN /\ connections' = [connections EXCEPT ![k] = Popped(connections[k])]
          /\ pending' = [pending EXCEPT ![k] = NoCon]
    /\ lock' = NoThread
    /\ pc' = [pc EXCEPT ![t] = "idle"]
    /\ t_key' = [t_key EXCEPT ![t] = NoKey]
    /\ UNCHANGED <<pool_size, conns, now, held, t_con, t_delta, outvars,
                   misuse>>

\* lines 105-112: connection.touch() raises after setdefault; the finally
\* clause frees the lock, nothing is appended, close() is not reached and
\* the caller still has the connection.
RelRaise(t) ==
    /\ pc[t] = "rel_check"
    /\ LET c == t_con[t]
           k == KeyOf(c)
           pools == SetDefault(k)
       IN /\ HasRoom(pools[k])
          /\ connections' = pools
          /\ held' = [held EXCEPT ![t] = held[t] \cup {c}]
    /\ lock' = NoThread
    /\ pc' = [pc EXCEPT ![t] = "idle"]
    /\ t_con' = [t_con EXCEPT ![t] = NoCon]
    /\ UNCHANGED <<pool_size, conns, now, t_key, t_delta, outvars,
                   pending, misuse>>

\* line 115: connection.close() raises; release ends with the exception
\* outside the lock and the surplus connection stays open.
RelCloseRaise(t) ==
    /\ pc[t] = "rel_close"
    /\ pc' = [pc EXCEPT ![t] = "idle"]
    /\ t_con' = [t_con EXCEPT ![t] = NoCon]
    /\ UNCHANGED <<pool_size, connections, lock, conns, now, held, t_key,
                   t_delta, outvars, pending, misuse>>

\* lines 143-148, 154: con.closed(), con.is_outdated() or con.close()
\* raises inside the sweep; control goes to the finally clause with the
\* mapping as the sweep has left it so far.
OutRaise(t) ==
    /\ \/ pc[t] = "out_con" /\ out_idx[t] <= Len(connections[t_key[t]])
       \/ pc[t] = "out_close"
    /\ pc' = [pc EXCEPT ![t] = "out_unlock"]
    /\ UNCHANGED <<pool_size, connections, lock, conns, now, held, locals,
                   pending, misuse>>

\* The connections some part of the program still refers to: those in the
\* pool, those callers hold and those a running release was given.
Referenced ==
    Idle \cup UNION {held[t] : t \in Threads}
         \cup {t_con[t] : t \in Threads}

\* BaseConnection.__del__ (lines 241-243): an open connection that nothing
\* refers to any more is collected, at some later moment, and close() runs.
ConDel(c) ==
    /\ c \in Created \ Referenced
    /\ ~closed(c)
    /\ conns' = close(c)
    /\ UNCHANGED <<pool_size, connections, lock, now, pc, held, locals,
                   pending, misuse>>

\* ----------------------------------------------------------- environment
\* datetime.datetime.now() advances.
Tick ==
    /\ now < MaxTime
    /\ now' = now + 1
    /\ UNCHANGED <<pool_size, connections, lock, conns, pc, held, locals,
                   pending, misuse>>

\* closed() starts to report True: the peer dropped the connection, or
\* whoever has a reference to it called close().
ConnectionDies(c) ==
    /\ c \in Created
    /\ ~closed(c)
    /\ conns' = close(c)
    /\ UNCHANGED <<pool_size, connections, lock, now, pc, held, locals,
                   pending, misuse>>

\* --------------------------------------------------------- specification
Next ==
    \/ \E t \in Threads, a \in Addresses, ce \in Certificates : CallGet(t, a, ce)
    \/ \E t \in Threads : GetLock(t)
    \/ \E t \in Threads : GetPop(t)
    \/ \E t \in Threads : GetMiss(t)
    \/ \E t \in Threads : GetNew(t)
    \/ \E t \in Threads : GetNewFail(t)
    \/ \E t \in Threads, c \in Created : CallRelease(t, c)
    \/ \E t \in Threads : RelLock(t)
    \/ \E t \in Threads : RelStore(t)
    \/ \E t \in Threads : RelFull(t)
    \/ \E t \in Threads : RelClose(t)
    \/ \E t \in Threads, d \in Deltas : CallOutdate(t, d)
    \/ \E t \in Threads : OutLock(t)
    \/ \E t \in Threads : OutKey(t)
    \/ \E t \in Threads : OutCon(t)
    \/ \E t \in Threads : OutClose(t)
    \/ \E t \in Threads : OutEndKey(t)
    \/ \E t \in Threads : OutDone(t)
    \/ \E t \in Threads : OutUnlock(t)
    \/ Tick
    \/ \E c \in Created : ConnectionDies(c)

\* Callers that release only what they hold.
Spec == Init /\ [][Next]_vars

NextMisuse ==
    \/ Next
    \/ \E t \in Threads, c \in Created : ReleaseAgain(t, c)

\* Callers that may also release a connection a second time.
SpecMisuse == Init /\ [][NextMisuse]_vars

NextRaise ==
    \/ Next
    \/ \E t \in Threads : GetRaise(t)
    \/ \E t \in Threads : RelRaise(t)
    \/ \E t \in Threads : RelCloseRaise(t)
    \/ \E t \in Threads : OutRaise(t)
    \/ \E c \in Created : ConDel(c)

\* The steps of thread t inside a call: taking the lock and every statement
\* up to the return (or the exception).
ThreadStep(t) ==
    \/ GetLock(t) \/ GetPop(t) \/ GetMiss(t) \/ GetNew(t) \/ GetNewFail(t)
    \/ RelLock(t) \/ RelStore(t) \/ RelFull(t) \/ RelClose(t)
    \/ OutLock(t) \/ OutKey(t) \/ OutCon(t) \/ OutClose(t) \/ OutEndKey(t)
    \/ OutDone(t) \/ OutUnlock(t)
    \/ GetRaise(t) \/ RelRaise(t) \/ RelCloseRaise(t) \/ OutRaise(t)

\* Calls in which closed(), touch() and close() may raise, under fair
\* scheduling: a thread that can take a step again and again, which
\* includes finding the lock free, takes one.
FairSpec ==
    /\ Init
    /\ [][NextRaise]_vars
    /\ \A t \in Threads : SF_vars(ThreadStep(t))

TypeOK ==
    /\ pool_size \in PoolSizes
    /\ DOMAIN connections \subseteq Keys
    /\ lock \in Threads \cup {NoThread}
    /\ now \in 0..MaxTime

\* ----------------------------------------------------------------- claims
\* The connections a thread owns as a caller: those it got from
\* get_cached_connection and has not released, and the one it is releasing
\* until release has stored or closed it.
CheckedOut(t) ==
    held[t] \cup (IF pc[t] \in {"rel_lock", "rel_check", "rel_close"}
                  THEN {t_con[t]} ELSE {})

\* C1: with an integer pool_size n, every key's idle list holds at most n
\* connections in every reachable state.
C1_PoolBounded ==
    pool_size # None =>
        \A k \in DOMAIN connections : Len(connections[k]) <= pool_size

\* A release found its bucket full (after another release filled it) and is
\* about to close the surplus connection.
C1_Witness ==
    \E t \in Threads :
        /\ pc[t] = "rel_close"
        /\ pool_size # None /\ pool_size > 0
        /\ Len(PoolGet(KeyOf(t_con[t]))) = pool_size

\* A thread leaves the scan of get_cached_connection in this step.
GetCompletes(t) == pc[t] = "get_scan" /\ pc'[t] # "get_scan"

\* The connection last stored by release for the key of t's acquire, with
\* no acquire on the key and no sweep since; NoCon if there is none.
PendingFor(t) == pending[t_key[t]]

\* C2 as stated: the next get_cached_connection for K after a release
\* stored the live connection C returns C itself, without
\* get_new_connection.
C2_NextAcquireReturnsReleased ==
    [][\A t \in Threads :
          (GetCompletes(t) /\ PendingFor(t) # NoCon /\ ~closed(PendingFor(t)))
              => (pc'[t] = "idle" /\ held'[t] = held[t] \cup {PendingFor(t)})]_vars

\* C2 amended: the next get_cached_connection for K after a release stored
\* the live connection C returns a live connection popped from K's idle
\* list, C itself or one that stood ahead of C, and never calls
\* get_new_connection.
C2_NextAcquireReusesPool ==
    [][\A t \in Threads :
          (GetCompletes(t) /\ PendingFor(t) # NoCon /\ ~closed(PendingFor(t)))
              => /\ pc'[t] = "idle"
                 /\ PoolGet(t_key[t]) # <<>>
                 /\ PendingFor(t) \in Range(PoolGet(t_key[t]))
                 /\ ~closed(Head(PoolGet(t_key[t])))
                 /\ held'[t] = held[t] \cup {Head(PoolGet(t_key[t]))}]_vars

\* An acquire scans a bucket that holds a live connection stored by the
\* last release, behind another connection.
C2_Witness ==
    \E t \in Threads :
        /\ pc[t] = "get_scan"
        /\ PendingFor(t) # NoCon
        /\ ~closed(PendingFor(t))
        /\ Len(PoolGet(t_key[t])) >= 2
        /\ Head(PoolGet(t_key[t])) # PendingFor(t)

\* C3: a release of a live connection that finds its bucket holding
\* pool_size connections (or the pool disabled, pool_size 0) goes on to
\* close(); when it ends the connection is closed and is not in the pool.
C3_SurplusClosedNotStored ==
    [][\A t \in Threads :
          /\ (pc[t] = "idle" /\ pc'[t] \in {"rel_lock", "rel_close"}
                /\ pool_size = 0)
                => pc'[t] = "rel_close"
          /\ (pc[t] = "rel_check" /\ pc'[t] # "rel_check"
                /\ pool_size # None
                /\ Len(PoolGet(KeyOf(t_con[t]))) >= pool_size)
                => (pc'[t] = "rel_close" /\ t_con[t] \notin Idle')
          /\ (pc[t] = "rel_close" /\ pc'[t] # "rel_close")
                => (conns'[t_con[t]].closed /\ t_con[t] \notin Idle')]_vars

\* A release left the critical section with a full bucket; the surplus
\* connection is still open, the lock is free and close() is next.
C3_Witness ==
    \E t \in Threads :
        /\ pc[t] = "rel_close"
        /\ lock = NoThread
        /\ ~closed(t_con[t])
        /\ pool_size = 1
        /\ Len(PoolGet(KeyOf(t_con[t]))) = 1
        /\ t_con[t] \notin Idle

\* The sweep of thread t looks at one connection of the current pool in
\* this step (lines 143-147).
Examines(t) ==
    /\ pc[t] = "out_con"
    /\ (pc'[t] = "out_close" \/ out_idx'[t] = out_idx[t] + 1)

\* The connection the sweep of thread t is at.
SweepCon(t) == connections[t_key[t]][out_idx[t]]

\* The list of key k after the step, empty if the key is gone.
PoolGetNext(k) == IF k \in DOMAIN connections' THEN connections'[k] ELSE <<>>

\* C4 as stated: outdate(d) drops a connection from the new pool exactly
\* when (now - last_use) > d.
C4_RemovesExactlyOutdated ==
    [][\A t \in Threads :
          Examines(t) =>
              ((new_pool'[t] = new_pool[t])
                  <=> ((now - conns[SweepCon(t)].last_use) > t_delta[t]))]_vars

\* C4 amended: outdate(d) drops from the pool exactly the idle connections
\* that report closed or whose (now - last_use) > d when the sweep looks at
\* them, and closes those of them that were not closed; every other idle
\* connection stays in its bucket in the same relative order, and the sweep
\* changes no last_use and no other closed state.
C4_RemovesClosedOrOutdated ==
    /\ [](\A t \in Threads :
            pc[t] \in {"out_con", "out_close"} =>
                LET seen == SubSeq(connections[t_key[t]], 1, out_idx[t] - 1)
                    Kept(c) == c \in Range(new_pool[t])
                IN new_pool[t] = SelectSeq(seen, Kept))
    /\ [][\A t \in Threads :
            /\ Examines(t) =>
                LET con == SweepCon(t)
                    gone == conns[con].closed
                            \/ (now - conns[con].last_use) > t_delta[t]
                IN /\ gone => new_pool'[t] = new_pool[t]
                   /\ ~gone => new_pool'[t] = Append(new_pool[t], con)
                   /\ (pc'[t] = "out_close") <=> (gone /\ ~conns[con].closed)
                   /\ conns' = conns
                   /\ connections' = connections
            /\ (pc[t] = "out_close" /\ pc'[t] # "out_close") =>
                /\ conns' = [conns EXCEPT ![SweepCon(t)].closed = TRUE]
                /\ new_pool'[t] = new_pool[t]
                /\ connections' = connections
            /\ (pc[t] = "out_con" /\ pc'[t] = "out_key") =>
                /\ PoolGetNext(t_key[t]) = new_pool[t]
                /\ \A k \in Keys \ {t_key[t]} : PoolGetNext(k) = PoolGet(k)
                /\ conns' = conns]_vars

\* A sweep is at a connection of the pool that is closed but not outdated,
\* behind one it has kept.
C4_Witness ==
    \E t \in Threads :
        /\ pc[t] = "out_con"
        /\ out_idx[t] <= Len(connections[t_key[t]])
        /\ new_pool[t] # <<>>
        /\ closed(SweepCon(t))
        /\ ~((now - conns[SweepCon(t)].last_use) > t_delta[t])

\* C5: when outdate(0) has swept the pool, the mapping is empty and every
\* connection that was idle in it is closed.
C5_ZeroDeltaEmptiesPool ==
    \A t \in Threads :
        (pc[t] = "out_unlock" /\ t_delta[t] = 0) =>
            (DOMAIN connections = {} /\ \A c \in Idle : closed(c))

\* C6: when outdate returns, no key of the mapping has an empty list; with
\* no idle connection left, the mapping has no key.
C6_NoEmptyBucketAfterSweep ==
    \A t \in Threads :
        pc[t] = "out_unlock" =>
            /\ \A k \in DOMAIN connections : connections[k] # <<>>
            /\ (Idle = {} => DOMAIN connections = {})

\* A sweep that found keys in the mapping is about to return and has left
\* no key behind.
C6_Witness ==
    \E t \in Threads :
        /\ pc[t] = "out_unlock"
        /\ out_items[t] # {}
        /\ DOMAIN connections = {}

\* C7: with pool_size 0 the mapping never has a key, every acquire goes on
\* to get_new_connection, and every release of a live connection goes on
\* to close(), which closes it.
C7_PoolDisabled ==
    /\ [](pool_size = 0 => DOMAIN connections = {})
    /\ [][pool_size = 0 =>
            \A t \in Threads :
                /\ GetCompletes(t) => pc'[t] = "get_new"
                /\ \A c \in held[t] \ held'[t] :
                      ~closed(c) => (pc'[t] = "rel_close" /\ t_con'[t] = c)
                /\ (pc[t] = "rel_close" /\ pc'[t] # "rel_close")
                      => conns'[t_con[t]].closed]_vars

\* With pool_size 0 a release is about to close a live connection while the
\* other connection that was opened is already closed.
C7_Witness ==
    \E t \in Threads :
        /\ pool_size = 0
        /\ pc[t] = "rel_close"
        /\ ~closed(t_con[t])
        /\ \E c \in Created : c # t_con[t] /\ closed(c)

\* C8: with callers that release only what they hold, no connection is
\* idle in the pool and checked out at once, and none is checked out by
\* two callers.
C8_ExclusiveOwner ==
    /\ \A t \in Threads : CheckedOut(t) \cap Idle = {}
    /\ \A t1, t2 \in Threads :
          t1 # t2 => CheckedOut(t1) \cap CheckedOut(t2) = {}

\* One caller holds a connection while another scans the same key's bucket,
\* which holds an idle connection.
C8_Witness ==
    \E t1, t2 \in Threads :
        /\ t1 # t2
        /\ pc[t2] = "get_scan"
        /\ PoolGet(t_key[t2]) # <<>>
        /\ \E c \in held[t1] : KeyOf(c) = t_key[t2]

\* No connection appears twice in the mapping, in one bucket or in two.
NoDuplicates ==
    /\ \A k \in DOMAIN connections :
          \A i, j \in 1..Len(connections[k]) :
              i # j => connections[k][i] # connections[k][j]
    /\ \A k1, k2 \in DOMAIN connections :
          k1 # k2 => Range(connections[k1]) \cap Range(connections[k2]) = {}

\* C9 as stated: no connection appears more than once in the mapping, also
\* when a connection that was released is released again.
C9_NeverTwiceInPool == NoDuplicates

\* C9 amended: no connection appears more than once in the mapping as long
\* as every release is passed a connection its caller holds at that time.
C9_NeverTwiceIfHeld == misuse = 0 => NoDuplicates

\* Two connections are idle in one bucket and every release so far was of a
\* held connection.
C9_Witness ==
    /\ misuse = 0
    /\ \E k \in DOMAIN connections : Len(connections[k]) >= 2

\* C10: a thread that is about to execute close() does not hold the lock.
C10_CloseOutsideLock ==
    \A t \in Threads : pc[t] \in {"rel_close", "out_close"} => lock # t

\* C11: a thread that is in get_new_connection does not hold the lock, so
\* the lock is free for the other threads while a connection is opened.
C11_CreateOutsideLock ==
    \A t \in Threads : pc[t] = "get_new" => lock # t

\* Two acquires for one key both found the bucket empty and are both in
\* get_new_connection, with the lock free.
C11_Witness ==
    \E t1, t2 \in Threads :
        /\ t1 # t2
        /\ pc[t1] = "get_new" /\ pc[t2] = "get_new"
        /\ t_key[t1] = t_key[t2]
        /\ lock = NoThread

\* C12: the connection outdate closes is checked out by no caller, before
\* and after; a connection get_cached_connection returns from the pool is
\* not closed; and a closed connection never reports open again, so one
\* that outdate closed is never handed out.
C12_SweptNeverHandedOut ==
    [][\A t \in Threads :
          /\ (pc[t] = "out_close" /\ pc'[t] # "out_close") =>
                \A u \in Threads :
                    /\ SweepCon(t) \notin CheckedOut(u)
                    /\ SweepCon(t) \notin held'[u]
          /\ (GetCompletes(t) /\ pc'[t] = "idle") =>
                \A c \in held'[t] \ held[t] :
                    ~closed(c) /\ ~conns'[c].closed
          /\ \A c \in Created : closed(c) => conns'[c].closed]_vars

\* A sweep is about to close a connection of a key for which an acquire
\* waits at the lock.
C12_Witness ==
    \E t, u \in Threads :
        /\ pc[t] = "out_close"
        /\ pc[u] = "get_lock"
        /\ t_key[u] = t_key[t]

\* C13: a connection that release appends to a bucket reports not closed
\* in the step that appends it.
C13_StoredReportsOpen ==
    [][\A t \in Threads :
          (pc[t] = "rel_check" /\ pc'[t] = "idle") => ~closed(t_con[t])]_vars

\* Every key but k has the same list, and is in the mapping or not, before
\* and after the step.
OtherKeysUntouched(k) ==
    \A k2 \in Keys \ {k} :
        /\ PoolGetNext(k2) = PoolGet(k2)
        /\ (k2 \in DOMAIN connections') <=> (k2 \in DOMAIN connections)

\* C14: no step of get_cached_connection for key K changes the list of
\* another key; when get_new_connection fails the caller gets no
\* connection, the thread does not hold the lock and the mapping is as it
\* was, so the thread is back where it can call again.
C14_FailedAcquireLeavesOtherKeys ==
    [][\A t \in Threads :
          /\ (pc[t] = "get_lock" /\ pc'[t] # "get_lock")
                => connections' = connections
          /\ pc[t] = "get_scan" => OtherKeysUntouched(t_key[t])
          /\ (pc[t] = "get_new" /\ pc'[t] = "idle" /\ held'[t] = held[t]) =>
                /\ lock # t /\ lock' = lock
                /\ connections' = connections
                /\ held' = held]_vars

\* get_new_connection is in progress for one key while the bucket of
\* another key holds an idle connection.
C14_Witness ==
    \E t \in Threads :
        /\ pc[t] = "get_new"
        /\ \E k \in Keys \ {t_key[t]} : PoolGet(k) # <<>>

\* The number of connections thread t has checked out that report open.
LiveOut(t) == Cardinality({c \in CheckedOut(t) : ~closed(c)})

RECURSIVE SumLiveOut(_)
\* LiveOut summed over a set of threads.
SumLiveOut(T) ==
    IF T = {} THEN 0
    ELSE LET t == CHOOSE x \in T : TRUE
         IN LiveOut(t) + SumLiveOut(T \ {t})

\* C15: the open connections checked out, counted per caller, are at most
\* the connections get_new_connection has opened minus the connections
\* that are closed.
C15_LiveOutBounded ==
    SumLiveOut(Threads)
        <= Len(conns) - Cardinality({c \in Created : closed(c)})

\* Every connection opened so far is either closed or checked out while
\* open, with at least one of each.
C15_Witness ==
    /\ Len(conns) = MaxConns
    /\ \E c \in Created : closed(c)
    /\ \E t \in Threads : \E c \in held[t] : ~closed(c) /\ c < Len(conns)
    /\ SumLiveOut(Threads)
          = Len(conns) - Cardinality({c \in Created : closed(c)})

\* C16: a connection get_cached_connection returns from the pool has
\* last_use equal to the time of that step, and a connection release
\* stores has last_use equal to the time of that step.
C16_TouchedOnReuseAndStore ==
    [][\A t \in Threads :
          /\ (GetCompletes(t) /\ pc'[t] = "idle") =>
                \A c \in held'[t] \ held[t] : conns'[c].last_use = now
          /\ (pc[t] = "rel_check" /\ pc'[t] = "idle") =>
                /\ conns'[t_con[t]].last_use = now
                /\ t_con[t] \in Range(PoolGetNext(KeyOf(t_con[t])))]_vars

\* A release holds the lock with room in the bucket for a connection whose
\* last use lies in the past.
C16_Witness ==
    \E t \in Threads :
        /\ pc[t] = "rel_check"
        /\ HasRoom(PoolGet(KeyOf(t_con[t])))
        /\ conns[t_con[t]].last_use < now

\* Thread t, which holds the lock in the scan, takes a step.
ScanStep(t) ==
    /\ pc[t] = "get_scan"
    /\ (pc'[t] # "get_scan" \/ connections' # connections)

\* C17: each step of the scan takes the head of K's list off and leaves the
\* rest in order; an open head is touched and returned, a closed head is
\* dropped with its state as it was and the scan goes on;
\* get_new_connection is reached only over an empty list.
C17_FirstLiveReturned ==
    [][\A t \in Threads :
          ScanStep(t) =>
              LET k == t_key[t]
                  pool == PoolGet(k)
              IN IF pool # <<>>
                 THEN /\ PoolGetNext(k) = Tail(pool)
                      /\ IF ~closed(Head(pool))
                         THEN /\ pc'[t] = "idle"
                              /\ held'[t] = held[t] \cup {Head(pool)}
                              /\ conns' = [conns EXCEPT
                                             ![Head(pool)].last_use = now]
                         ELSE /\ pc'[t] = "get_scan"
                              /\ held' = held
                              /\ conns' = conns
                 ELSE /\ pc'[t] = "get_new"
                      /\ connections' = connections
                      /\ held' = held]_vars

\* The scan is at a list whose head is closed and whose second connection
\* is open.
C17_Witness ==
    \E t \in Threads :
        /\ pc[t] = "get_scan"
        /\ Len(PoolGet(t_key[t])) >= 2
        /\ closed(PoolGet(t_key[t])[1])
        /\ ~closed(PoolGet(t_key[t])[2])

\* C18: every connection in the list of key k has address and certificate
\* equal to k, and a connection get_cached_connection(address, certificate)
\* returns has that address and that certificate.
C18_BucketOfOwnKey ==
    /\ [](\A k \in DOMAIN connections :
            \A i \in 1..Len(connections[k]) :
                <<conns[connections[k][i]].address,
                  conns[connections[k][i]].certificate>> = k)
    /\ [][\A t \in Threads :
            (pc[t] \in {"get_scan", "get_new"} /\ pc'[t] = "idle") =>
                \A c \in held'[t] \ held[t] :
                    /\ conns'[c].address = t_key[t][1]
                    /\ conns'[c].certificate = t_key[t][2]]_vars

\* The mapping holds idle connections under two keys.
C18_Witness ==
    \E k1, k2 \in DOMAIN connections :
        k1 # k2 /\ connections[k1] # <<>> /\ connections[k2] # <<>>

\* C20: no step of the scan of get_cached_connection changes the key set of
\* the mapping; a key leaves the mapping only when outdate ends its pass
\* over that key; an empty list gets its first connection only from
\* release; and the locked step of release leaves the list of the
\* connection's key in the mapping and not empty.
C20_AcquireKeepsKey ==
    [][/\ \A t \in Threads :
            /\ ScanStep(t) => DOMAIN connections' = DOMAIN connections
            /\ (pc[t] = "rel_check" /\ pc'[t] # "rel_check") =>
                  /\ KeyOf(t_con[t]) \in DOMAIN connections'
                  /\ PoolGetNext(KeyOf(t_con[t])) # <<>>
       /\ \A k \in DOMAIN connections :
            /\ k \notin DOMAIN connections' =>
                  \E t \in Threads :
                      pc[t] = "out_con" /\ t_key[t] = k /\ pc'[t] = "out_key"
            /\ (connections[k] = <<>> /\ PoolGetNext(k) # <<>>) =>
                  \E t \in Threads :
                      /\ pc[t] = "rel_check" /\ pc'[t] = "idle"
                      /\ KeyOf(t_con[t]) = k]_vars

\* A caller has the only connection of a key out of the pool: the key is in
\* the mapping with an empty list, and the lock is free.
C20_Witness ==
    \E k \in DOMAIN connections :
        /\ connections[k] = <<>>
        /\ lock = NoThread
        /\ \E t \in Threads : \E c \in held[t] : KeyOf(c) = k

\* The statements between self._lock.acquire() and the finally clause.
InSection(t) ==
    pc[t] \in {"get_scan", "rel_check",
               "out_key", "out_con", "out_close", "out_unlock"}

\* C19: a thread holds the lock exactly while it is inside a critical
\* section, so the lock is free when no thread is inside one, also after
\* closed(), touch() or close() raised; and under fair scheduling a call
\* that waits for the lock ends.
C19_LockAlwaysReleased ==
    /\ [](\A t \in Threads : (lock = t) <=> InSection(t))
    /\ \A t \in Threads :
          (pc[t] \in {"get_lock", "rel_lock", "out_lock"}) ~> (pc[t] = "idle")

\* An exception inside a sweep has brought the sweeping thread to the
\* finally clause with the lock still held, while another call waits for it.
C19_Witness ==
    \E t, u \in Threads :
        /\ pc[u] = "out_unlock" /\ t_key[u] # NoKey /\ lock = u
        /\ pc[t] \in {"get_lock", "rel_lock", "out_lock"}

====
